---- MODULE Spec2Model ----
(***************************************************************************)
(* A model of the decision tree learner (DecisionTreeClassifier.py) and of *)
(* the bootstrap-aggregated ensemble built on it                           *)
(* (RandomForestClassifier.py).                                            *)
(*                                                                         *)
(* Conventions.                                                            *)
(*  - Arrays are sequences, so indices are 1-based: sample i of the model  *)
(*    is row i-1 of the numpy array, feature f is column f-1.              *)
(*  - An optional value is None (the empty tuple) or <<v>>.                *)
(*  - Reals are kept as scaled integers.  An impurity is stored multiplied *)
(*    by the number of samples of the partition it is taken over and by    *)
(*    GainUnit, so that all gains computed at one node (they share the     *)
(*    parent's sample count) compare as the reals they stand for.          *)
(*    min_impurity_decrease is kept in hundredths.                         *)
(*  - A seeded numpy RandomState is a fixed stream of draws: the record    *)
(*    [stream, pos], where the seed decides the stream.                    *)
(***************************************************************************)
EXTENDS Integers, Sequences, FiniteSets, TLC

VARIABLES dt, dt2, call, rf, par

vars == <<dt, dt2, call, rf, par>>

-----------------------------------------------------------------------------
(* Bounds of the model. *)

\* rows of a training set given to DecisionTreeClassifier.fit
MaxSamples == 3
\* integer max_depth values are 0..MaxDepth
MaxDepth == 2
\* rows of a matrix given to DecisionTreeClassifier.predict
MaxQuery == 2
\* draws of a random stream before it repeats
StreamLen == 2
\* fit calls, and predict calls, one tree object receives
MaxFits == 1
MaxPredicts == 1
\* rows of a partition given to _best_criteria
MaxCriteriaSamples == 4
\* n_estimators values are 1..MaxEstimators
MaxEstimators == 2
\* rows of a training set given to RandomForestClassifier.fit
MaxForestSamples == 2
\* draws of the ensemble's generator before it repeats
BootstrapStreamLen == 2
\* columns of a feature matrix given to RandomForestClassifier
NumForestFeatures == 1
\* rows of a matrix given to RandomForestClassifier.predict
MaxForestQuery == 2
\* fit calls, and predict calls, one ensemble receives
MaxForestFits == 2
MaxForestPredicts == 1
\* rows of a training set whose out-of-bag score is examined (SpecOob)
MaxOobSamples == 3
\* rows of a training set, and draws of a tree's stream before it repeats, when
\* trees of two depths are compared (SpecDepth)
MaxDepthSamples == 5
DepthStreamLen == 4
\* workers of Parallel are 1..MaxJobs (n_jobs), and the fit calls an ensemble
\* receives when fit is taken step by step (SpecPar)
MaxJobs == 2
MaxParFits == 1

\* columns of a feature matrix given to DecisionTreeClassifier
NumFeatures == 2
FeatureValues == {0, 1}
Labels == {0, 1}

None == <<>>
Some(v) == <<v>>

\* F applied to the value of v (v is evaluated once, like a local variable
\* assigned before use)
With(v, F(_)) == CHOOSE r \in {F(u) : u \in {v}} : TRUE
NoNode == [kind |-> "none"]

-----------------------------------------------------------------------------
(* Arrays. *)

Range(s) == {s[i] : i \in 1..Len(s)}

RECURSIVE SeqSum(_)
SeqSum(s) == IF s = <<>> THEN 0 ELSE Head(s) + SeqSum(Tail(s))

Min(S) == CHOOSE m \in S : \A x \in S : m <= x

\* np.unique: the distinct values in ascending order
RECURSIVE SortedSeq(_)
SortedSeq(S) == IF S = {} THEN <<>> ELSE <<Min(S)>> \o SortedSeq(S \ {Min(S)})

unique(s) == SortedSeq(Range(s))

\* X[:, idx]
Column(X, idx) == [i \in 1..Len(X) |-> X[i][idx]]

\* a[idxs] (fancy indexing by an index array)
Take(a, idxs) == [i \in 1..Len(idxs) |-> a[idxs[i]]]

Count(s, v) == Cardinality({i \in 1..Len(s) : s[i] = v})

RECURSIVE Gcd(_, _)
Gcd(a, b) == IF b = 0 THEN a ELSE Gcd(b, a % b)

RECURSIVE Factorial(_)
Factorial(n) == IF n <= 1 THEN 1 ELSE n * Factorial(n - 1)

-----------------------------------------------------------------------------
(* Node (Node.py is not among the sources; modelled from spec section 3). *)

Leaf(v) == [kind |-> "leaf", value |-> v]

Decision(feature, threshold, left, right) ==
    [kind |-> "decision", feature |-> feature, threshold |-> threshold,
     left |-> left, right |-> right]

is_leaf_node(node) == node.kind = "leaf"

-----------------------------------------------------------------------------
(* DecisionTreeClassifier: impurity and split search. *)

\* the fixed-point unit of log2: 1.0 is Scale
Scale == 100000
Log2of3 == 158496
Log2of5 == 232193
Log2of7 == 280735

\* k * log2(k), in units of 1/Scale
XLog2X(k) ==
    CASE k <= 1 -> 0
      [] k = 2 -> 2 * Scale
      [] k = 3 -> 3 * Log2of3
      [] k = 4 -> 8 * Scale
      [] k = 5 -> 5 * Log2of5
      [] k = 6 -> 6 * Scale + 6 * Log2of3
      [] k = 7 -> 7 * Log2of7
      [] k = 8 -> 24 * Scale

\* every partial mean times MseUnit is an integer
MseUnit == Factorial(8)

\* the unit gains are measured in, per sample of the parent
GainUnit(self) == IF self.is_regression THEN MseUnit ELSE Scale

\* _entropy(y) * len(y) * Scale:
\*   -sum(p * log2 p) * n  =  n*log2(n) - sum(c * log2 c)   for p = c / n
entropy(y) ==
    XLog2X(Len(y)) - SeqSum([i \in 1..Len(unique(y)) |-> XLog2X(Count(y, unique(y)[i]))])

\* _mse(y, np.full(y.shape, np.mean(y))) * len(y) * MseUnit:
\*   mean((y - m)^2) * n  =  sum(y^2) - sum(y)^2 / n
mse(y) ==
    MseUnit * SeqSum([i \in 1..Len(y) |-> y[i] * y[i]])
        - (MseUnit \div Len(y)) * SeqSum(y) * SeqSum(y)

\* np.argwhere(feature <= threshold).flatten(): the indices, ascending
LeqThreshold(feature, threshold) ==
    SortedSeq({i \in 1..Len(feature) : feature[i] <= threshold})

\* np.argwhere(feature > threshold).flatten()
GtThreshold(feature, threshold) ==
    SortedSeq({i \in 1..Len(feature) : feature[i] > threshold})

split(feature, threshold) ==
    [left_idxs |-> LeqThreshold(feature, threshold),
     right_idxs |-> GtThreshold(feature, threshold)]

\* the loss of a partition, times its sample count
loss(self, y) == IF self.is_regression THEN mse(y) ELSE entropy(y)

\* _information_gain(y, feature, threshold) * len(y) * GainUnit
information_gain(self, y, feature, threshold) ==
    LET parent_loss == loss(self, y)
        s == split(feature, threshold)
    IN  IF Len(s.left_idxs) = 0 \/ Len(s.right_idxs) = 0 THEN 0
        ELSE LET child_loss == loss(self, Take(y, s.left_idxs))
                                 + loss(self, Take(y, s.right_idxs))
             IN  parent_loss - child_loss

\* -np.inf: below every gain
NegInf == -10000000

\* the loop of _best_criteria over the thresholds of one feature, ascending
RECURSIVE ThresholdLoop(_, _, _, _, _, _)
ThresholdLoop(self, y, idx, feature, thresholds, best) ==
    IF thresholds = <<>> THEN best
    ELSE LET threshold == Head(thresholds)
             Update(gain) ==
                 IF gain > best.best_gain
                 THEN [best_gain |-> gain, split_idx |-> Some(idx),
                       split_thresh |-> Some(threshold)]
                 ELSE best
         IN  With(With(information_gain(self, y, feature, threshold), Update),
                  LAMBDA next :
                      ThresholdLoop(self, y, idx, feature, Tail(thresholds), next))

\* the loop of _best_criteria over the features, in the order given
RECURSIVE FeatureLoop(_, _, _, _, _)
FeatureLoop(self, X, y, features_idxs, best) ==
    IF features_idxs = <<>> THEN best
    ELSE LET idx == Head(features_idxs)
             feature == Column(X, idx)
             thresholds == unique(feature)
         IN  With(ThresholdLoop(self, y, idx, feature, thresholds, best),
                  LAMBDA next : FeatureLoop(self, X, y, Tail(features_idxs), next))

best_criteria(self, X, y, features_idxs) ==
    FeatureLoop(self, X, y, features_idxs,
                [best_gain |-> NegInf, split_idx |-> None, split_thresh |-> None])

-----------------------------------------------------------------------------
(* DecisionTreeClassifier: leaf values and tree growth. *)

\* returned for an empty label array
NoLabel == -1

\* np.bincount(y).argmax(): the least label among the most frequent ones
most_common_label(y) ==
    IF Len(y) = 0 THEN NoLabel
    ELSE CHOOSE c \in Range(y) :
            \A d \in Range(y) :
                Count(y, d) < Count(y, c) \/ (Count(y, d) = Count(y, c) /\ c <= d)

\* np.mean(y), as a fraction in lowest terms
mean(y) ==
    LET g == Gcd(SeqSum(y), Len(y))
    IN  [num |-> SeqSum(y) \div g, den |-> Len(y) \div g]

get_leaf_value(self, y) ==
    IF self.is_regression THEN mean(y) ELSE most_common_label(y)

\* self.random.choice(n_features, self.max_features, replace=False)
choice(random) == random.stream[random.pos]

advance(random) == [random EXCEPT !.pos = (random.pos % Len(random.stream)) + 1]

\* best_gain < self.min_impurity_decrease, for a gain taken over n_samples
BelowMinImpurityDecrease(self, best_gain, n_samples) ==
    best_gain * 100 < self.min_impurity_decrease * n_samples * GainUnit(self)

\* The result of a call: the node built, the generator as the call leaves it,
\* and the exception it raised, if any.
Returned(node, random) == [node |-> node, random |-> random, raised |-> None]

Raised(exception, random) ==
    [node |-> NoNode, random |-> random, raised |-> Some(exception)]

\* a depth test that stops one level late
DepthExceeded(self, depth) == depth > self.max_depth[1]

\* depth >= self.max_depth
DepthReached(self, depth) == depth >= self.max_depth[1]

\* lines 134-147 of _grow_tree: the node of a split whose sides are non-empty
RECURSIVE grow_tree(_, _, _, _)
\* a node whose left child is grown from the rows above the threshold
grow_children_swapped(self, X, y, depth, best_feat, best_thresh, s) ==
    With(grow_tree(self, Take(X, s.right_idxs), Take(y, s.right_idxs), depth + 1),
         LAMBDA left :
         With(grow_tree([self EXCEPT !.random = left.random],
                        Take(X, s.left_idxs), Take(y, s.left_idxs), depth + 1),
              LAMBDA right :
                  Returned(Decision(best_feat, best_thresh, left.node, right.node),
                           right.random)))

grow_children(self, X, y, depth, best_feat, best_thresh, s) ==
    With(grow_tree(self, Take(X, s.left_idxs), Take(y, s.left_idxs), depth + 1),
         LAMBDA left :
         With(grow_tree([self EXCEPT !.random = left.random],
                        Take(X, s.right_idxs), Take(y, s.right_idxs), depth + 1),
              LAMBDA right :
                  Returned(Decision(best_feat, best_thresh, left.node, right.node),
                           right.random)))

\* lines 124-147 of _grow_tree: the search of a split among features_idxs, with
\* the generator as the draw of the features left it
grow_split(self, X, y, depth, features_idxs) ==
    With(best_criteria(self, X, y, features_idxs),
         LAMBDA best :
         IF BelowMinImpurityDecrease(self, best.best_gain, Len(X))
         THEN Returned(Leaf(get_leaf_value(self, y)), self.random)
         ELSE With(split(Column(X, best.split_idx[1]), best.split_thresh[1]),
                   LAMBDA s :
                   IF Len(s.left_idxs) = 0 \/ Len(s.right_idxs) = 0
                   THEN Returned(Leaf(get_leaf_value(self, y)), self.random)
                   ELSE grow_children(self, X, y, depth, best.split_idx[1],
                                      best.split_thresh[1], s)))

grow_tree(self0, X0, y0, depth) ==
    With([self |-> self0, X |-> X0, y |-> y0],
         LAMBDA a :
         LET self == a.self
             X == a.X
             y == a.y
             n_samples == Len(X)
             n_features == Len(X[1])
             n_labels == Cardinality(Range(y))
         IN  IF self.max_depth = None
             THEN \* int >= NoneType
                  Raised("TypeError", self.random)
             ELSE IF DepthReached(self, depth) \/ n_labels = 1
                       \/ n_samples < self.min_samples_split
             THEN Returned(Leaf(get_leaf_value(self, y)), self.random)
             ELSE IF self.max_features # None
             THEN grow_split([self EXCEPT !.random = advance(self.random)], X, y,
                             depth, choice(self.random))
             ELSE grow_split(self, X, y, depth, [i \in 1..n_features |-> i]))

\* _traverse_tree going left only below the threshold
RECURSIVE traverse_tree_strict(_, _)
traverse_tree_strict(x, node) ==
    IF is_leaf_node(node) THEN node.value
    ELSE IF x[node.feature] < node.threshold
         THEN traverse_tree_strict(x, node.left)
         ELSE traverse_tree_strict(x, node.right)

RECURSIVE traverse_tree(_, _)
traverse_tree(x, node) ==
    IF is_leaf_node(node) THEN node.value
    ELSE IF x[node.feature] <= node.threshold
         THEN traverse_tree(x, node.left)
         ELSE traverse_tree(x, node.right)

\* np.array([self._traverse_tree(x, self.root) for x in X])
tree_predict(self, X) == [i \in 1..Len(X) |-> traverse_tree(X[i], self.root)]

\* tree.fit(X_bootstrap, y_bootstrap): the tree after the call, and what the
\* call raised
tree_fit(tree, X, y) ==
    With(grow_tree(tree, X, y, 0),
         LAMBDA r :
             [raised |-> r.raised,
              tree |-> IF r.raised # None THEN [tree EXCEPT !.random = r.random]
                       ELSE [tree EXCEPT !.root = r.node, !.random = r.random]])

-----------------------------------------------------------------------------
(* Inputs. *)

Rows == [1..NumFeatures -> FeatureValues]

\* an order on (row, label) pairs, to list each training set once whatever
\* the order of its rows
RECURSIVE RowKey(_, _)
RowKey(x, f) == IF f = 0 THEN 0 ELSE x[f] + 10 * RowKey(x, f - 1)

SampleKey(s) == 10 * RowKey(s[1], NumFeatures) + s[2]

SortedSamples(n) ==
    {d \in [1..n -> Rows \X Labels] :
        \A i \in 1..(n - 1) : SampleKey(d[i]) <= SampleKey(d[i + 1])}

DataOf(d) == [X |-> [i \in 1..Len(d) |-> d[i][1]], y |-> [i \in 1..Len(d) |-> d[i][2]]]

\* the non-empty training sets of at most n rows
TrainingSets(n) == {DataOf(d) : d \in UNION {SortedSamples(k) : k \in 1..n}}

TreeTrainingSets == TrainingSets(MaxSamples)

Queries == UNION {[1..n -> Rows] : n \in 0..MaxQuery}

\* the index arrays choice(NumFeatures, k, replace=False) can return
Draws(k) ==
    {c \in [1..k -> 1..NumFeatures] : \A i, j \in 1..k : i # j => c[i] # c[j]}

\* the generators RandomState(seed) can be, over the seeds
Generators(k, len) == {[stream |-> st, pos |-> 1] : st \in [1..len -> Draws(k)]}

Unused == [stream |-> <<>>, pos |-> 1]

\* the generators of a tree: a tree that considers all features never draws
TreeGenerators(max_features, len) ==
    IF max_features = None THEN {Unused} ELSE Generators(max_features[1], len)

-----------------------------------------------------------------------------
(* DecisionTreeClassifier: the object and its calls. *)

MaxDepths == {None} \cup {Some(d) : d \in 0..MaxDepth}
MinSamplesSplits == {2, 3}
MaxFeatures == {None} \cup {Some(k) : k \in 1..NumFeatures}
MinImpurityDecreases == {0, 50}

\* DecisionTreeClassifier(...)
DecisionTreeClassifier(max_depth, min_samples_split, max_features, min_impurity_decrease, random, is_regression) ==
    [max_depth |-> max_depth, min_samples_split |-> min_samples_split,
     max_features |-> max_features,
     min_impurity_decrease |-> min_impurity_decrease,
     random |-> random, root |-> NoNode, is_regression |-> is_regression]

\* the last call made on the object, and how many calls it has received
NoCall ==
    [op |-> "new", X |-> <<>>, y |-> <<>>, out |-> <<>>, raised |-> None,
     fits |-> 0, predicts |-> 0]

NoTree == [root |-> NoNode]
NoForest == [n_estimators |-> 0]
NoPool == [phase |-> "idle"]

Init ==
    /\ \E max_depth \in MaxDepths, min_samples_split \in MinSamplesSplits,
          max_features \in MaxFeatures,
          min_impurity_decrease \in MinImpurityDecreases,
          is_regression \in BOOLEAN :
          \E random \in TreeGenerators(max_features, StreamLen) :
             dt = DecisionTreeClassifier(max_depth, min_samples_split, max_features,
                                         min_impurity_decrease, random, is_regression)
    /\ dt2 = NoTree
    /\ call = NoCall
    /\ rf = NoForest
    /\ par = NoPool

\* DecisionTreeClassifier.fit(X, y): the root is assigned only if _grow_tree
\* returns
fit(X, y) ==
    /\ call.fits < MaxFits
    /\ \E r \in {tree_fit(dt, X, y)} :
           /\ dt' = r.tree
           /\ call' = [call EXCEPT !.op = "fit", !.X = X, !.y = y, !.out = <<>>,
                                   !.raised = r.raised, !.fits = @ + 1]
    /\ UNCHANGED <<dt2, rf, par>>

\* DecisionTreeClassifier.predict(X): a tree that was never fitted has no root
predict(X) ==
    /\ call.predicts < MaxPredicts
    /\ call' = IF dt.root = NoNode
               THEN [call EXCEPT !.op = "predict", !.X = X, !.y = <<>>, !.out = <<>>,
                                 !.raised = Some("AttributeError"),
                                 !.predicts = @ + 1]
               ELSE [call EXCEPT !.op = "predict", !.X = X, !.y = <<>>,
                                 !.out = tree_predict(dt, X), !.raised = None,
                                 !.predicts = @ + 1]
    /\ UNCHANGED <<dt, dt2, rf, par>>

Next ==
    \/ \E d \in TreeTrainingSets : fit(d.X, d.y)
    \/ \E X \in Queries : predict(X)

Spec == Init /\ [][Next]_vars

-----------------------------------------------------------------------------
(* Properties of DecisionTreeClassifier, under Spec. *)

\* the training rows (and their labels) that reach each leaf of node
RECURSIVE LeafPartitions(_, _, _)
LeafPartitions(node, X, y) ==
    IF node.kind # "decision" THEN {[X |-> X, y |-> y]}
    ELSE LET s == split(Column(X, node.feature), node.threshold)
         IN  LeafPartitions(node.left, Take(X, s.left_idxs), Take(y, s.left_idxs))
               \cup LeafPartitions(node.right, Take(X, s.right_idxs),
                                   Take(y, s.right_idxs))

\* some feature and threshold split the rows into two non-empty sides
Splittable(X) ==
    \E f \in 1..Len(X[1]) : \E t \in Range(Column(X, f)) :
        Len(split(Column(X, f), t).right_idxs) > 0

\* C1: with max_depth left unset, fit on a non-empty dataset raises nothing and
\* stores a tree that no depth test cut short: every leaf holds a pure
\* partition, or one of fewer than min_samples_split samples, or one that no
\* split divides.
C1_UnsetMaxDepthGrowsFully ==
    (call.op = "fit" /\ dt.max_depth = None) =>
        /\ call.raised = None
        /\ dt.root # NoNode
        /\ \A part \in LeafPartitions(dt.root, call.X, call.y) :
              \/ Cardinality(Range(part.y)) = 1
              \/ Len(part.y) < dt.min_samples_split
              \/ ~Splittable(part.X)

\* the leaf reached from node by going left at each decision node when
\* x[feature] <= threshold and right otherwise, found by walking down at most
\* `fuel` levels
RECURSIVE LeafReached(_, _, _)
LeafReached(x, node, fuel) ==
    IF node.kind # "decision" \/ fuel = 0 THEN node
    ELSE LeafReached(x, (IF x[node.feature] > node.threshold THEN node.right
                         ELSE node.left), fuel - 1)

\* C2: predict on a fitted tree returns one output per row of X, in row order,
\* each the stored value of the leaf the row reaches from the root.
C2_PredictFollowsTree ==
    (call.op = "predict" /\ dt.root # NoNode) =>
        /\ call.raised = None
        /\ Len(call.out) = Len(call.X)
        /\ \A i \in 1..Len(call.X) :
              LET leaf == LeafReached(call.X[i], dt.root, MaxSamples)
              IN  leaf.kind = "leaf" /\ call.out[i] = leaf.value

\* a two-row prediction through a decision node that sends the rows to leaves
\* of different values
C2_Witness ==
    /\ call.op = "predict"
    /\ dt.root.kind = "decision"
    /\ Len(call.X) = 2
    /\ call.out = <<1, 0>>

\* C3: fit on a dataset whose labels are all identical stores a single leaf
\* whose value is that label (classification) or the mean of the constant
\* target (regression), whatever the other hyperparameters are.
C3_ConstantLabelsGiveOneLeaf ==
    (call.op = "fit" /\ Cardinality(Range(call.y)) = 1) =>
        dt.root = Leaf(IF dt.is_regression THEN [num |-> call.y[1], den |-> 1]
                       ELSE call.y[1])

\* the rows of X that go left (feature value <= threshold) and right
\* (feature value > threshold) at a decision node
GoesLeft(node, X) == {i \in 1..Len(X) : X[i][node.feature] <= node.threshold}
GoesRight(node, X) == {i \in 1..Len(X) : X[i][node.feature] > node.threshold}

\* node, at the given depth, is what the rows X with labels y admit: it is no
\* deeper than max_depth; a leaf holds the leaf value of its rows; a decision
\* node has at least min_samples_split rows of more than one label, and its
\* rows fall into two non-empty, disjoint sides that cover them, each side
\* admitting the child on that side one level down
RECURSIVE WellFormed(_, _, _, _)
WellFormed(node, X, y, depth) ==
    /\ depth <= dt.max_depth[1]
    /\ node.kind \in {"leaf", "decision"}
    /\ node.kind = "leaf" => node.value = get_leaf_value(dt, y)
    /\ node.kind = "decision" =>
           /\ Len(X) >= dt.min_samples_split
           /\ Cardinality(Range(y)) > 1
           /\ GoesLeft(node, X) # {}
           /\ GoesRight(node, X) # {}
           /\ GoesLeft(node, X) \cap GoesRight(node, X) = {}
           /\ GoesLeft(node, X) \cup GoesRight(node, X) = 1..Len(X)
           /\ WellFormed(node.left, Take(X, SortedSeq(GoesLeft(node, X))),
                         Take(y, SortedSeq(GoesLeft(node, X))), depth + 1)
           /\ WellFormed(node.right, Take(X, SortedSeq(GoesRight(node, X))),
                         Take(y, SortedSeq(GoesRight(node, X))), depth + 1)

\* C13: in the tree stored by fit with an integer max_depth, no node lies
\* deeper than max_depth, and every decision node was made from a partition of
\* at least min_samples_split rows and more than one label, with two children
\* grown from the non-empty, disjoint, covering sides of that partition.
C13_TreeWellFormed ==
    (call.op = "fit" /\ dt.max_depth # None) =>
        /\ call.raised = None
        /\ WellFormed(dt.root, call.X, call.y, 0)

\* a stored tree with a decision node at depth 1 and leaves at depth max_depth
C13_Witness ==
    /\ call.op = "fit"
    /\ dt.max_depth = Some(2)
    /\ dt.root.kind = "decision"
    /\ dt.root.left.kind = "decision" \/ dt.root.right.kind = "decision"

-----------------------------------------------------------------------------
(* _best_criteria as a function of its arguments: the arguments are drawn in *)
(* the initial state and the call stores what it returns.                   *)

FeatureOrders == UNION {Draws(k) : k \in 1..NumFeatures}

\* _grow_tree searches a split only for a partition of more than one label
CriteriaSets ==
    {d \in TrainingSets(MaxCriteriaSamples) : Cardinality(Range(d.y)) > 1}

InitCriteria ==
    /\ \E is_regression \in BOOLEAN :
          dt = DecisionTreeClassifier(None, 2, None, 0, Unused, is_regression)
    /\ \E d \in CriteriaSets, features_idxs \in FeatureOrders :
          call = [op |-> "args", X |-> d.X, y |-> d.y,
                  features_idxs |-> features_idxs, out |-> None]
    /\ dt2 = NoTree
    /\ rf = NoForest
    /\ par = NoPool

best_criteria_call ==
    /\ call.op = "args"
    /\ call' = [call EXCEPT !.op = "best_criteria",
                   !.out = best_criteria(dt, call.X, call.y, call.features_idxs)]
    /\ UNCHANGED <<dt, dt2, rf, par>>

NextCriteria == best_criteria_call

SpecCriteria == InitCriteria /\ [][NextCriteria]_vars

\* the candidate (feature, threshold) pairs of a call
Candidates(X, features_idxs) ==
    {<<f, t>> : f \in Range(features_idxs), t \in FeatureValues}
        \cap {<<f, X[i][f]>> : f \in Range(features_idxs), i \in 1..Len(X)}

BothSidesNonEmpty(X, c) ==
    LET s == split(Column(X, c[1]), c[2])
    IN  Len(s.left_idxs) > 0 /\ Len(s.right_idxs) > 0

\* C4: a candidate split with an empty side has information gain exactly 0,
\* and _best_criteria returns no (feature, threshold) with an empty side when
\* some candidate among the considered features has both sides non-empty.
C4_NoEmptySideSelected ==
    call.op = "best_criteria" =>
        LET cands == Candidates(call.X, call.features_idxs)
        IN  /\ \A c \in cands :
                  ~BothSidesNonEmpty(call.X, c) =>
                      information_gain(dt, call.y, Column(call.X, c[1]), c[2]) = 0
            /\ (\E c \in cands : BothSidesNonEmpty(call.X, c)) =>
                  BothSidesNonEmpty(call.X, <<call.out.split_idx[1],
                                              call.out.split_thresh[1]>>)

-----------------------------------------------------------------------------
(* RandomForestClassifier: the steps of fit and predict. *)

\* int(np.sqrt(n))
ISqrt(n) == CHOOSE k \in 0..n : k * k <= n /\ (k + 1) * (k + 1) > n

\* self.random.choice(n_samples, size=n_samples, replace=True): the draw of the
\* generator, folded onto the n_samples rows
bootstrap_choice(random, n_samples) ==
    [j \in 1..n_samples |-> ((random.stream[random.pos][j] - 1) % n_samples) + 1]

\* np.setdiff1d(np.arange(n_samples), bootstrap_indices)
setdiff1d(n_samples, bootstrap_indices) ==
    SortedSeq((1..n_samples) \ Range(bootstrap_indices))

\* _bootstrap_sample(X, y), and the generator as the call leaves it
bootstrap_sample(random, X) ==
    LET n_samples == Len(X)
        bootstrap_indices == bootstrap_choice(random, n_samples)
    IN  [bootstrap_indices |-> bootstrap_indices,
         oob_indices |-> setdiff1d(n_samples, bootstrap_indices),
         random |-> advance(random)]

\* RandomState(self.random_state) of a tree, drawing max_features of the
\* n_features columns: the seed's stream of permutations, cut to max_features
SeededGenerator(random_state, max_features) ==
    [stream |-> [i \in 1..Len(random_state) |->
                    SubSeq(random_state[i], 1, max_features)],
     pos |-> 1]

\* DecisionTreeClassifier(max_depth=self.max_depth, ...,
\*                        random_state=self.random_state)
new_tree(self) ==
    DecisionTreeClassifier(self.max_depth, self.min_samples_split, self.max_features,
        self.min_impurity_decrease,
        SeededGenerator(self.random_state, self.max_features[1]), FALSE)

\* tree.predict(X[oob_indices]) if len(X[oob_indices]) > 0 else np.array([])
oob_predict(tree, X, oob_indices) ==
    IF Len(oob_indices) > 0 THEN tree_predict(tree, Take(X, oob_indices)) ELSE <<>>

\* _train_tree(X, y, tree_idx, bootstrap_indices, oob_indices)
train_tree(self, X, y, bootstrap_indices, oob_indices) ==
    With(tree_fit(new_tree(self), Take(X, bootstrap_indices),
                  Take(y, bootstrap_indices)),
         LAMBDA fitted :
             [raised |-> fitted.raised, tree |-> fitted.tree,
              oob_pred |-> IF fitted.raised # None THEN <<>>
                           ELSE oob_predict(fitted.tree, X, oob_indices),
              oob_indices |-> oob_indices])

\* np.zeros((n_samples, np.max(y) + 1)); column c + 1 counts label c
Max(S) == CHOOSE m \in S : \A x \in S : m >= x

zeros(n_samples, n_columns) == [i \in 1..n_samples |-> [c \in 1..n_columns |-> 0]]

\* a loop that marks a vote instead of counting it
RECURSIVE add_votes_marking(_, _, _)
add_votes_marking(oob_votes, oob_indices, oob_pred) ==
    IF oob_indices = <<>> \/ oob_pred = <<>> THEN oob_votes
    ELSE With([oob_votes EXCEPT ![Head(oob_indices)][Head(oob_pred) + 1] = 1],
              LAMBDA next : add_votes_marking(next, Tail(oob_indices), Tail(oob_pred)))

\* for idx, prediction in zip(oob_indices, oob_pred):
\*     self.oob_votes[idx, prediction] += 1
RECURSIVE add_votes(_, _, _)
add_votes(oob_votes, oob_indices, oob_pred) ==
    IF oob_indices = <<>> \/ oob_pred = <<>> THEN oob_votes
    ELSE With([oob_votes EXCEPT ![Head(oob_indices)][Head(oob_pred) + 1] = @ + 1],
              LAMBDA next : add_votes(next, Tail(oob_indices), Tail(oob_pred)))

\* one pass of the loop over results: append the tree, add its votes
merge(self, result) ==
    [self EXCEPT !.trees = Append(@, result.tree),
                 !.oob_votes = add_votes(@, result.oob_indices, result.oob_pred)]

\* an argmax that returns the last column holding the maximum
argmax_last(row) ==
    (CHOOSE c \in 1..Len(row) :
        /\ \A d \in 1..Len(row) : row[d] <= row[c]
        /\ \A d \in (c + 1)..Len(row) : row[d] < row[c]) - 1

\* np.argmax(row): the first column holding the maximum, as a label
argmax(row) ==
    (CHOOSE c \in 1..Len(row) :
        /\ \A d \in 1..Len(row) : row[d] <= row[c]
        /\ \A d \in 1..(c - 1) : row[d] < row[c]) - 1

\* np.mean(a == b), as a fraction in lowest terms
Fraction(num, den) == [num |-> num \div Gcd(num, den), den |-> den \div Gcd(num, den)]

\* _calculate_oob_score(y)
calculate_oob_score(self, y) ==
    LET oob_mask == {i \in 1..Len(self.oob_votes) : SeqSum(self.oob_votes[i]) > 0}
        hits == {i \in oob_mask : argmax(self.oob_votes[i]) = y[i]}
    IN  IF oob_mask # {}
        THEN [self EXCEPT !.oob_score_ =
                  Some(Fraction(Cardinality(hits), Cardinality(oob_mask)))]
        ELSE self

\* lines 191-193 of fit: the default of max_features and the fresh accumulator
fit_begin(self, X, y) ==
    [self EXCEPT !.max_features =
                     IF @ = None \/ @ = Some(0) THEN Some(ISqrt(Len(X[1]))) ELSE @,
                 !.oob_votes = zeros(Len(X), Max(Range(y)) + 1)]

\* the rounds of fit in round order: each draws its bootstrap from the
\* ensemble's generator and trains its tree; the results, in round order
RECURSIVE rounds(_, _, _, _, _)
rounds(self, X, y, random, n) ==
    IF n = 0 THEN [results |-> <<>>, random |-> random]
    ELSE With(bootstrap_sample(random, X),
              LAMBDA b :
              With(rounds(self, X, y, b.random, n - 1),
                   LAMBDA rest :
                       [results |-> <<train_tree(self, X, y, b.bootstrap_indices,
                                                 b.oob_indices)>> \o rest.results,
                        random |-> rest.random]))

RECURSIVE merge_all(_, _)
merge_all(self, results) ==
    IF results = <<>> THEN self
    ELSE With(merge(self, Head(results)),
              LAMBDA next : merge_all(next, Tail(results)))

\* a mode that returns the greatest of the most frequent values
mode_greatest(column) ==
    CHOOSE v \in Range(column) :
        \A w \in Range(column) :
            Count(column, w) < Count(column, v)
                \/ (Count(column, w) = Count(column, v) /\ v >= w)

\* the most frequent value of a column of per-tree predictions, the least one
\* on a tie (scipy.stats.mode)
mode(column) ==
    CHOOSE v \in Range(column) :
        \A w \in Range(column) :
            Count(column, w) < Count(column, v)
                \/ (Count(column, w) = Count(column, v) /\ v <= w)

\* np.array([tree.predict(X) for tree in self.trees])
predictions(self, X) == [t \in 1..Len(self.trees) |-> tree_predict(self.trees[t], X)]

\* stats.mode(predictions)[0].flatten()
forest_predict(self, X) ==
    [i \in 1..Len(X) |-> mode([t \in 1..Len(self.trees) |-> predictions(self, X)[t][i]])]

-----------------------------------------------------------------------------
(* RandomForestClassifier: the object and its calls. *)

ForestRows == [1..NumForestFeatures -> FeatureValues]

ForestSamples(n) ==
    {d \in [1..n -> ForestRows \X Labels] :
        \A i \in 1..(n - 1) :
            10 * RowKey(d[i][1], NumForestFeatures) + d[i][2]
                <= 10 * RowKey(d[i + 1][1], NumForestFeatures) + d[i + 1][2]}

\* the non-empty training sets of at most n rows, each listed once whatever
\* the order of its rows
ForestSets(n) == {DataOf(d) : d \in UNION {ForestSamples(k) : k \in 1..n}}

ForestTrainingSets == ForestSets(MaxForestSamples)

ForestQueries == UNION {[1..n -> ForestRows] : n \in 0..MaxForestQuery}

\* the index arrays of one draw for n rows, in ascending order: a tree and an
\* out-of-bag set depend on which rows are drawn how often, not on the order
BootstrapDraws(n) ==
    {a \in [1..n -> 1..n] : \A i \in 1..(n - 1) : a[i] <= a[i + 1]}

\* the generators RandomState(random_state) of an ensemble can be
BootstrapGenerators(n) ==
    {[stream |-> st, pos |-> 1] : st \in [1..BootstrapStreamLen -> BootstrapDraws(n)]}

FeaturePermutations(n) == {p \in [1..n -> 1..n] : \A i, j \in 1..n : i # j => p[i] # p[j]}

\* what the seed random_state makes the trees draw
RandomStates == [1..StreamLen -> FeaturePermutations(NumForestFeatures)]

ForestMaxDepths == {None, Some(MaxDepth)}
ForestMaxFeatures == {None} \cup {Some(k) : k \in 1..NumForestFeatures}

\* RandomForestClassifier(...); oob_votes is no attribute before the first fit
RandomForestClassifier(n_estimators, max_depth, max_features, random_state, random) ==
    [n_estimators |-> n_estimators, max_depth |-> max_depth, min_samples_split |-> 2,
     max_features |-> max_features, min_impurity_decrease |-> 0,
     oob_score_ |-> None, random_state |-> random_state, random |-> random,
     trees |-> <<>>, oob_votes |-> <<>>]

Forests(n) ==
    {RandomForestClassifier(n_estimators, max_depth, max_features, random_state, random) :
        n_estimators \in 1..MaxEstimators, max_depth \in ForestMaxDepths,
        max_features \in ForestMaxFeatures, random_state \in RandomStates,
        random \in BootstrapGenerators(n)}

NoForestCall ==
    [op |-> "new", X |-> <<>>, y |-> <<>>, out |-> <<>>, results |-> <<>>,
     raised |-> None, fits |-> 0, predicts |-> 0]

InitForest ==
    /\ rf \in Forests(MaxForestSamples)
    /\ call = NoForestCall
    /\ dt = NoTree
    /\ dt2 = NoTree
    /\ par = NoPool

\* the generator after k draws
RECURSIVE advance_by(_, _)
advance_by(random, k) == IF k = 0 THEN random ELSE advance_by(advance(random), k - 1)

\* RandomForestClassifier.fit(X, y) when a round raises: Parallel raises it to
\* the caller after it has drawn the bootstrap of every round it dispatched,
\* which is at least the first and depends on the pool
fit_raises(self, X, y, raised) ==
    \E k \in 1..self.n_estimators :
        /\ rf' = [self EXCEPT !.random = advance_by(@, k)]
        /\ call' = [call EXCEPT !.op = "fit", !.X = X, !.y = y, !.out = <<>>,
                       !.results = <<>>, !.raised = raised, !.fits = @ + 1]

\* RandomForestClassifier.fit(X, y) when every round returns
fit_returns(self, X, y, r) ==
    /\ rf' = calculate_oob_score(
                 merge_all([self EXCEPT !.random = r.random], r.results), y)
    /\ call' = [call EXCEPT !.op = "fit", !.X = X, !.y = y, !.out = <<>>,
                   !.results = r.results, !.raised = None, !.fits = @ + 1]

\* RandomForestClassifier.fit(X, y)
rf_fit(X, y) ==
    /\ call.fits < MaxForestFits
    /\ \E self \in {fit_begin(rf, X, y)} :
       \E r \in {rounds(self, X, y, self.random, self.n_estimators)} :
           IF r.results[1].raised # None
           THEN fit_raises(self, X, y, r.results[1].raised)
           ELSE fit_returns(self, X, y, r)
    /\ UNCHANGED <<dt, dt2, par>>

\* RandomForestClassifier.predict(X), of an ensemble that holds trees
rf_predict(X) ==
    /\ call.predicts < MaxForestPredicts
    /\ Len(rf.trees) > 0
    /\ call' = [call EXCEPT !.op = "predict", !.X = X, !.y = <<>>,
                   !.out = forest_predict(rf, X), !.results = predictions(rf, X),
                   !.raised = None, !.predicts = @ + 1]
    /\ UNCHANGED <<rf, dt, dt2, par>>

NextForest ==
    \/ \E d \in ForestTrainingSets : rf_fit(d.X, d.y)
    \/ \E X \in ForestQueries : rf_predict(X)

SpecForest == InitForest /\ [][NextForest]_vars

-----------------------------------------------------------------------------
(* Properties of the ensemble, under SpecForest. *)

\* C5: after one or more fit calls that returned, the ensemble holds exactly
\* n_estimators trees, and predict aggregates over a matrix of n_estimators
\* rows, one per tree, each of one prediction per input row.
C5_HoldsNEstimatorsTrees ==
    /\ (call.op = "fit" /\ call.raised = None) => Len(rf.trees) = rf.n_estimators
    /\ call.op = "predict" =>
           /\ Len(call.results) = rf.n_estimators
           /\ \A t \in 1..Len(call.results) : Len(call.results[t]) = Len(call.X)

\* the rows of the last fit call that hold an out-of-bag vote
Voted == {i \in 1..Len(rf.oob_votes) : \E c \in 1..Len(rf.oob_votes[i]) : rf.oob_votes[i][c] > 0}

\* C6: after a fit call that returned and in which no training sample received
\* an out-of-bag vote, oob_score_ is None.
C6_NoVotesNoScore ==
    (call.op = "fit" /\ call.raised = None /\ Voted = {}) => rf.oob_score_ = None

\* the per-tree predictions for row i of the last predict call
TreeVotes(i) == [t \in 1..Len(rf.trees) |-> traverse_tree(call.X[i], rf.trees[t].root)]

\* C8: predict returns one value per input row, in input order: a value
\* predicted by some tree for that row, predicted by at least as many trees as
\* any other value, and by more trees than any lower value.
C8_PredictIsLowestMode ==
    call.op = "predict" =>
        /\ Len(call.out) = Len(call.X)
        /\ \A i \in 1..Len(call.X) :
               /\ Count(TreeVotes(i), call.out[i]) > 0
               /\ \A w \in Labels :
                      /\ Count(TreeVotes(i), w) <= Count(TreeVotes(i), call.out[i])
                      /\ w < call.out[i] =>
                             Count(TreeVotes(i), w) < Count(TreeVotes(i), call.out[i])

\* a predict call in which the trees disagree on a row: on one row label 1 wins
\* over a minority of 0, on one row 0 and 1 tie
C8_Witness ==
    /\ call.op = "predict"
    /\ \E i \in 1..Len(call.X) :
           /\ call.out[i] = 1
           /\ Count(TreeVotes(i), 0) > 0
    /\ \E i \in 1..Len(call.X) :
           /\ call.out[i] = 0
           /\ Count(TreeVotes(i), 0) = Count(TreeVotes(i), 1)

-----------------------------------------------------------------------------
(* The out-of-bag score of the first fit of an ensemble, on training sets large
   enough for two rounds to disagree on a row out of both bootstraps. *)

InitOob ==
    /\ rf \in Forests(MaxOobSamples)
    /\ call = NoForestCall
    /\ dt = NoTree
    /\ dt2 = NoTree
    /\ par = NoPool

NextOob == \E d \in ForestSets(MaxOobSamples) : call.fits = 0 /\ rf_fit(d.X, d.y)

SpecOob == InitOob /\ [][NextOob]_vars

\* the label with the most votes in a row of the accumulator, the lowest one
\* on a tie
MostVoted(row) ==
    CHOOSE c \in 0..(Len(row) - 1) :
        /\ \A d \in 0..(Len(row) - 1) : row[d + 1] <= row[c + 1]
        /\ \A d \in 0..(c - 1) : row[d + 1] < row[c + 1]

OobHits == {i \in Voted : MostVoted(rf.oob_votes[i]) = call.y[i]}

\* C7: after a fit call that returned with at least one out-of-bag vote,
\* oob_score_ is the number of voted rows whose most voted label (lowest label
\* on a tie) is their true label, divided by the number of voted rows; rows
\* without a vote count on neither side.
C7_OobScoreIsAccuracyOverVoted ==
    (call.op = "fit" /\ call.raised = None /\ Voted # {}) =>
        /\ rf.oob_score_ # None
        /\ rf.oob_score_[1].num * Cardinality(Voted)
               = Cardinality(OobHits) * rf.oob_score_[1].den
        /\ rf.oob_score_[1].den > 0

\* a fit in which one row has a tied vote, one row has a decided vote and one
\* row has no vote
C7_Witness ==
    /\ call.op = "fit" /\ call.raised = None
    /\ \E i \in Voted : rf.oob_votes[i] = <<1, 1>> /\ call.y[i] = 0
    /\ \E i \in Voted : rf.oob_votes[i][1] # rf.oob_votes[i][2]
    /\ Voted # 1..Len(call.y)
    /\ rf.oob_score_ # None

-----------------------------------------------------------------------------
(* Two trees of the same hyperparameters and seed but max_depth, d and d + 1,
   fitted on the same training set. *)

\* the training sets of more than one label
DepthSets == {d \in TrainingSets(MaxDepthSamples) : Cardinality(Range(d.y)) > 1}

InitDepth ==
    /\ \E max_depth \in 0..MaxDepth, min_samples_split \in MinSamplesSplits,
          max_features \in MaxFeatures :
          \E random \in TreeGenerators(max_features, DepthStreamLen) :
             /\ dt = DecisionTreeClassifier(Some(max_depth), min_samples_split,
                                            max_features, 0, random, FALSE)
             /\ dt2 = DecisionTreeClassifier(Some(max_depth + 1), min_samples_split,
                                             max_features, 0, random, FALSE)
    /\ call = NoCall
    /\ rf = NoForest
    /\ par = NoPool

\* fit(X, y) of both trees
fit_both(X, y) ==
    /\ call.fits = 0
    /\ \E r \in {tree_fit(dt, X, y)}, r2 \in {tree_fit(dt2, X, y)} :
           /\ dt' = r.tree
           /\ dt2' = r2.tree
           /\ call' = [call EXCEPT !.op = "fit", !.X = X, !.y = y, !.out = <<>>,
                                   !.raised = r.raised, !.fits = @ + 1]
    /\ UNCHANGED <<rf, par>>

NextDepth == \E d \in DepthSets : fit_both(d.X, d.y)

SpecDepth == InitDepth /\ [][NextDepth]_vars

\* the number of training rows a fitted tree predicts as labelled
Correct(tree) ==
    Cardinality({i \in 1..Len(call.X) : traverse_tree(call.X[i], tree.root) = call.y[i]})

\* C9 (as stated): the tree fitted with max_depth d + 1 is at least as accurate
\* on the training set as the tree fitted with max_depth d, whatever
\* max_features is.
C9_DeeperNeverHurts ==
    call.op = "fit" => Correct(dt2) >= Correct(dt)

\* C9 (amended): the tree fitted with max_depth d + 1 is at least as accurate
\* on the training set as the tree fitted with max_depth d when max_features
\* is unset, so that every node considers all features.
C9_DeeperNeverHurtsAllFeatures ==
    (call.op = "fit" /\ dt.max_features = None) => Correct(dt2) >= Correct(dt)

\* all features considered, and the deeper tree is strictly more accurate than
\* a shallower tree that already splits
C9_Witness ==
    /\ call.op = "fit"
    /\ dt.max_features = None
    /\ dt.root.kind = "decision"
    /\ Correct(dt2) > Correct(dt)

-----------------------------------------------------------------------------
(* RandomForestClassifier.fit step by step: the calling thread consumes the
   generator of delayed calls (each item draws its bootstrap), the workers of
   Parallel run _train_tree, Parallel returns the results in round order when
   every round is done, and the calling thread merges them and scores.

   par.tasks[i] is round i: queued when dispatched, running on a worker, done
   with what _train_tree returned or raised. *)

Pool(n_jobs) ==
    [phase |-> "idle", n_jobs |-> n_jobs, X |-> <<>>, y |-> <<>>, tasks |-> <<>>,
     merged |-> 0]

InitPar ==
    /\ rf \in Forests(MaxForestSamples)
    /\ \E n_jobs \in 1..MaxJobs : par = Pool(n_jobs)
    /\ call = NoForestCall
    /\ dt = NoTree
    /\ dt2 = NoTree

InStatus(status) == {i \in 1..Len(par.tasks) : par.tasks[i].status = status}

\* lines 191-193 of fit, by the calling thread
par_begin(X, y) ==
    /\ par.phase = "idle"
    /\ call.fits < MaxParFits
    /\ rf' = fit_begin(rf, X, y)
    /\ par' = [par EXCEPT !.phase = "parallel", !.X = X, !.y = y, !.tasks = <<>>,
                          !.merged = 0]
    /\ call' = [call EXCEPT !.op = "fitting", !.X = X, !.y = y, !.out = <<>>,
                            !.results = <<>>, !.raised = None]
    /\ UNCHANGED <<dt, dt2>>

\* a dispatch that draws the bootstrap without moving the generator on
par_dispatch_stale ==
    /\ par.phase = "parallel"
    /\ Len(par.tasks) < rf.n_estimators
    /\ Cardinality(InStatus("queued") \cup InStatus("running")) < 2 * par.n_jobs
    /\ \E b \in {bootstrap_sample(rf.random, par.X)} :
           /\ rf' = rf
           /\ par' = [par EXCEPT !.tasks = Append(@,
                          [status |-> "queued",
                           bootstrap_indices |-> b.bootstrap_indices,
                           oob_indices |-> b.oob_indices, result |-> None])]
    /\ UNCHANGED <<call, dt, dt2>>

\* Parallel takes the next item of the generator (line 198): the bootstrap of
\* the round is drawn there, by the dispatching side; at most 2 * n_jobs rounds
\* are dispatched ahead of their completion (pre_dispatch)
par_dispatch ==
    /\ par.phase = "parallel"
    /\ Len(par.tasks) < rf.n_estimators
    /\ Cardinality(InStatus("queued") \cup InStatus("running")) < 2 * par.n_jobs
    /\ \E b \in {bootstrap_sample(rf.random, par.X)} :
           /\ rf' = [rf EXCEPT !.random = b.random]
           /\ par' = [par EXCEPT !.tasks = Append(@,
                          [status |-> "queued",
                           bootstrap_indices |-> b.bootstrap_indices,
                           oob_indices |-> b.oob_indices, result |-> None])]
    /\ UNCHANGED <<call, dt, dt2>>

\* a free worker takes the oldest queued round
par_start(i) ==
    /\ par.phase = "parallel"
    /\ i \in InStatus("queued")
    /\ \A j \in InStatus("queued") : i <= j
    /\ Cardinality(InStatus("running")) < par.n_jobs
    /\ par' = [par EXCEPT !.tasks[i].status = "running"]
    /\ UNCHANGED <<rf, call, dt, dt2>>

\* a worker that also merges its own result into the ensemble
par_finish_merging(i) ==
    /\ par.phase = "parallel"
    /\ i \in InStatus("running")
    /\ \E r \in {train_tree(rf, par.X, par.y, par.tasks[i].bootstrap_indices,
                             par.tasks[i].oob_indices)} :
           /\ par' = [par EXCEPT !.tasks[i].status = "done",
                                 !.tasks[i].result = Some(r)]
           /\ rf' = IF r.raised = None THEN merge(rf, r) ELSE rf
    /\ UNCHANGED <<call, dt, dt2>>

\* a worker runs _train_tree of its round to the end (lines 130-155)
par_finish(i) ==
    /\ par.phase = "parallel"
    /\ i \in InStatus("running")
    /\ \E r \in {train_tree(rf, par.X, par.y, par.tasks[i].bootstrap_indices,
                             par.tasks[i].oob_indices)} :
           par' = [par EXCEPT !.tasks[i].status = "done", !.tasks[i].result = Some(r)]
    /\ UNCHANGED <<rf, call, dt, dt2>>

\* Parallel raises to the caller what a round raised: fit ends there
par_raise ==
    /\ par.phase = "parallel"
    /\ \E i \in InStatus("done") :
           /\ par.tasks[i].result[1].raised # None
           /\ call' = [call EXCEPT !.op = "fit",
                                   !.raised = par.tasks[i].result[1].raised,
                                   !.fits = @ + 1]
    /\ par' = [par EXCEPT !.phase = "idle"]
    /\ UNCHANGED <<rf, dt, dt2>>

\* Parallel returns the list of results once every round is done (line 197)
par_collect ==
    /\ par.phase = "parallel"
    /\ Len(par.tasks) = rf.n_estimators
    /\ InStatus("done") = 1..Len(par.tasks)
    /\ \A i \in 1..Len(par.tasks) : par.tasks[i].result[1].raised = None
    /\ par' = [par EXCEPT !.phase = "merge"]
    /\ UNCHANGED <<rf, call, dt, dt2>>

\* one pass of the loop over results (lines 202-206), by the calling thread
par_merge ==
    /\ par.phase = "merge"
    /\ par.merged < Len(par.tasks)
    /\ rf' = merge(rf, par.tasks[par.merged + 1].result[1])
    /\ par' = [par EXCEPT !.merged = @ + 1]
    /\ UNCHANGED <<call, dt, dt2>>

\* self._calculate_oob_score(y) (line 208), and fit returns
par_score ==
    /\ par.phase = "merge"
    /\ par.merged = Len(par.tasks)
    /\ rf' = calculate_oob_score(rf, par.y)
    /\ par' = [par EXCEPT !.phase = "idle"]
    /\ call' = [call EXCEPT !.op = "fit", !.raised = None, !.fits = @ + 1,
                            !.results = [i \in 1..Len(par.tasks) |->
                                            par.tasks[i].result[1]]]
    /\ UNCHANGED <<dt, dt2>>

NextPar ==
    \/ \E d \in ForestTrainingSets : par_begin(d.X, d.y)
    \/ par_dispatch
    \/ \E i \in 1..MaxEstimators : par_start(i)
    \/ \E i \in 1..MaxEstimators : par_finish(i)
    \/ par_raise
    \/ par_collect
    \/ par_merge
    \/ par_score

SpecPar == InitPar /\ [][NextPar]_vars

\* a step of a worker: a round starts or ends
WorkerStep ==
    \E i \in 1..Len(par.tasks) :
        /\ Len(par'.tasks) = Len(par.tasks)
        /\ par'.tasks[i].status # par.tasks[i].status

\* C10: a step of a worker leaves the vote accumulator and the tree list as
\* they are, and what it returns does not depend on them; the accumulator and
\* the tree list change only when the calling thread allocates the accumulator
\* before any round exists, or when it merges the next round in round order
\* while every round is done and no worker is running.
C10_OnlyCallerMergesCompletedRounds ==
    [][/\ WorkerStep =>
           /\ rf' = rf
           /\ \A i \in 1..Len(par.tasks) :
                  par'.tasks[i].status = "done" /\ par.tasks[i].status # "done" =>
                      par'.tasks[i].result =
                          Some(train_tree([rf EXCEPT !.trees = <<>>, !.oob_votes = <<>>],
                                          par.X, par.y, par.tasks[i].bootstrap_indices,
                                          par.tasks[i].oob_indices))
       /\ (rf'.trees # rf.trees \/ rf'.oob_votes # rf.oob_votes) =>
           \/ /\ par.phase = "idle"
              /\ par'.tasks = <<>>
              /\ rf'.trees = rf.trees
           \/ /\ par.phase = "merge"
              /\ InStatus("done") = 1..Len(par.tasks)
              /\ par'.merged = par.merged + 1
              /\ rf'.trees = Append(rf.trees, par.tasks[par'.merged].result[1].tree)
      ]_vars

\* two rounds dispatched to two workers, the first merged and the second not
\* yet, with an out-of-bag vote recorded
C10_Witness ==
    /\ par.phase = "merge"
    /\ par.n_jobs = 2
    /\ Len(par.tasks) = 2
    /\ par.merged = 1
    /\ Len(rf.trees) = 1
    /\ Voted # {}

\* the i-th draw of a fresh generator of the given stream, for n_samples rows
NthDraw(stream, i, n_samples) ==
    [j \in 1..n_samples |->
        ((stream[((i - 1) % Len(stream)) + 1][j] - 1) % n_samples) + 1]

\* C11: in the fit of a fresh ensemble, whatever the number of workers and
\* the interleaving, the bootstrap of round i is the i-th draw of the seed's
\* stream and its out-of-bag set is the rows that draw leaves out, so both are
\* decided by the seed and the data alone; the generator has moved by one
\* draw per dispatched round and by nothing else.
C11_BootstrapIsIthDraw ==
    call.fits = 0 =>
        /\ \A i \in 1..Len(par.tasks) :
               /\ par.tasks[i].bootstrap_indices
                      = NthDraw(rf.random.stream, i, Len(par.X))
               /\ par.tasks[i].oob_indices
                      = SortedSeq((1..Len(par.X))
                                  \ Range(NthDraw(rf.random.stream, i, Len(par.X))))
        /\ rf.random.pos = (Len(par.tasks) % Len(rf.random.stream)) + 1

\* two rounds of different bootstraps, both running on workers at once
C11_Witness ==
    /\ par.phase = "parallel"
    /\ InStatus("running") = {1, 2}
    /\ par.tasks[1].bootstrap_indices # par.tasks[2].bootstrap_indices
    /\ par.tasks[2].oob_indices # <<>>

\* the rounds of the last fit call in which row i is outside the bootstrap and
\* the round's tree predicts label c for it
VotingRounds(i, c) ==
    {t \in 1..Len(par.tasks) :
        /\ i \notin Range(par.tasks[t].bootstrap_indices)
        /\ traverse_tree(par.X[i], par.tasks[t].result[1].tree.root) = c}

\* the accumulator after the results of the last fit call are merged in the
\* order p, starting from the accumulator fit allocates
MergedInOrder(p) ==
    merge_all([rf EXCEPT !.trees = <<>>,
                         !.oob_votes = zeros(Len(par.X), Max(Range(par.y)) + 1)],
              [k \in 1..Len(p) |-> par.tasks[p[k]].result[1]]).oob_votes

\* C12: after a fit call that returned, oob_votes[i][c] is the number of
\* rounds of that call whose bootstrap leaves row i out and whose tree predicts
\* c for row i (so a round whose bootstrap holds row i gives it no vote), and
\* merging the results of the rounds in any order gives the same counts.
C12_VotesCountOobRounds ==
    (call.op = "fit" /\ call.raised = None) =>
        /\ Len(rf.oob_votes) = Len(par.X)
        /\ \A i \in 1..Len(par.X) :
               /\ Len(rf.oob_votes[i]) = Max(Range(par.y)) + 1
               /\ \A c \in 0..Max(Range(par.y)) :
                      rf.oob_votes[i][c + 1] = Cardinality(VotingRounds(i, c))
        /\ \A p \in FeaturePermutations(Len(par.tasks)) :
               MergedInOrder(p) = rf.oob_votes

\* a fit of two rounds: one row is out of both bootstraps and holds two votes
\* for one label, another row is in both and holds none
C12_Witness ==
    /\ call.op = "fit" /\ call.raised = None
    /\ Len(par.tasks) = 2
    /\ \E i \in 1..Len(par.X), c \in 1..2 :
           /\ Len(rf.oob_votes[i]) = 2
           /\ rf.oob_votes[i][c] = 2
           /\ \E j \in 1..Len(par.X) : SeqSum(rf.oob_votes[j]) = 0

====
